---------------------------- MODULE Spec2Model ----------------------------
(***************************************************************************)
(* Composition validation of agent skills: the type assignability rules,  *)
(* the contract compatibility checker, the composition graph validation   *)
(* and the skill validator's report, modelled from the reference           *)
(* algorithms of docs/spec/VALIDATION.md, the composability specification  *)
(* and validation/validator.py.                                            *)
(***************************************************************************)
EXTENDS Integers, Sequences, FiniteSets, TLC

VARIABLES
    \* is_type_assignable: the two schemas of a call, its result, its position
    source, target, assignable, apc,
    \* check_contract_compatibility and is_structurally_compatible: the schema
    \* pair of a composition edge, the results, the position of each call
    producer_output, consumer_input, result, structural, cpc, spc,
    \* SkillValidator.validate: the parsed skill, the ValidationResult, the position
    document, report, vpc,
    \* validate_composition_graph: the skills, the returned errors, the position
    registry, composition_errors, gpc,
    \* validate_level_rules: the skill it was called on, the returned errors,
    \* the position
    skill, level_errors, lpc,
    \* diamond detection: the report of its warnings, the position
    diamond_report, wpc,
    \* compose(skill1, skill2): the two skills, the returned skill, the position
    skill1, skill2, composed_skill, kpc,
    \* effect and operation inference: the composed skills of a composite,
    \* its inferred classification, the one before the last edit, the edit
    composite, inferred, previous, last_edit,
    \* version constraints: a declared constraint, the available version, the
    \* returned errors, the position
    constraint, version, version_errors, rpc,
    \* detect_breaking_changes(old, new): the two versions of a skill, the
    \* returned changes, the position
    old, new, changes, bpc,
    \* is_type_assignable on schemas with $ref: the $defs, how references reach
    \* the call, the schemas of the outermost call, those of the innermost
    \* call, its depth, the outcome, the position
    defs, references, root, frame, depth, outcome, tpc,
    \* execute of a composed skill: how it was built, its parts, the input, the
    \* execute calls made on the parts, their results in order of arrival,
    \* the promise returned to the caller, the position
    combinator, skills, execute_input, calls, returns, settled, xpc,
    \* validate.sh: the fail-on-error input, the validator's verdict on each
    \* directory find yields and on the workspace directory, the shell, the
    \* script's variables, the outputs written, the exit status, the position
    FAIL_ON_ERROR, discovered, workspace_verdict, shell, SKILL_DIRS, AGENTSKILLS_FOUND, AGENTSKILLS_VALID, AGENTSKILLS_INVALID, position, GITHUB_OUTPUT, exit_status, hpc,
    \* the loop over graph.edges(): the edges not yet checked
    unchecked

avars == <<source, target, assignable, apc>>
cvars == <<producer_output, consumer_input, result, structural, cpc, spc>>
dvars == <<document, report, vpc>>
gvars == <<registry, composition_errors, gpc>>
lvars == <<skill, level_errors, lpc>>
wvars == <<diamond_report, wpc>>
kvars == <<skill1, skill2, composed_skill, kpc>>
ivars == <<composite, inferred, previous, last_edit>>
rvars == <<constraint, version, version_errors, rpc>>
bvars == <<old, new, changes, bpc>>
tvars == <<defs, references, root, frame, depth, outcome, tpc>>
xvars == <<combinator, skills, execute_input, calls, returns, settled, xpc>>
hvars == <<FAIL_ON_ERROR, discovered, workspace_verdict, shell, SKILL_DIRS, AGENTSKILLS_FOUND, AGENTSKILLS_VALID, AGENTSKILLS_INVALID, position, GITHUB_OUTPUT, exit_status, hpc>>
evars == <<unchecked>>
vars == <<avars, cvars, dvars, gvars, lvars, wvars, kvars, ivars, rvars, bvars, tvars, xvars, hvars, evars>>

-----------------------------------------------------------------------------
(* Schema model: a JSON-Schema-like node {type, items | properties, required} *)

\* Nesting depth of the schemas that are enumerated
MaxDepth == 2

PrimitiveTypes == {"string", "number", "integer", "boolean"}

\* The type that the compatibility table lists as accepting every output
AnyType == "any"

LeafTypes == PrimitiveTypes \cup {AnyType}

Prim(t) == [type |-> t]
Arr(s) == [type |-> "array", items |-> s]
Obj(props, req) == [type |-> "object", properties |-> props, required |-> req]

\* Field names of the object schemas enumerated for assignability
AssignFields == {"id"}

ObjectsOver(names, types) ==
    UNION { { Obj(props, req) : props \in [ns -> types], req \in SUBSET ns }
            : ns \in SUBSET names }

RECURSIVE Schemas(_)
Schemas(d) ==
    IF d = 0
    THEN { Prim(t) : t \in LeafTypes }
    ELSE LET sub == Schemas(d - 1)
         IN  { Prim(t) : t \in LeafTypes }
             \cup { Arr(s) : s \in sub }
             \cup ObjectsOver(AssignFields, sub)

-----------------------------------------------------------------------------
(* Type assignability, VALIDATION.md section 2.2 *)

\* The schemas is_type_assignable is called on
AssignUniverse == Schemas(MaxDepth)

IsPrimitive(s) == s.type \in PrimitiveTypes

IsLeaf(s) == s.type \in LeafTypes

RECURSIVE is_type_assignable(_, _)
RECURSIVE check_object_assignability(_, _)

\* object with required fields Ft accepts an object whose properties hold
\* every required name of Ft with an assignable type; extra fields ignored
check_object_assignability(src, tgt) ==
    \A f \in tgt.required :
        /\ f \in DOMAIN src.properties
        /\ is_type_assignable(src.properties[f], tgt.properties[f])

\* Mutant: the exact-match branch forgets its final `return True`, so equal
\* primitive tags fall through to the widening test
is_type_assignable_no_exact_return(src, tgt) ==
    IF src.type = tgt.type /\ src.type = "array"
    THEN is_type_assignable(src.items, tgt.items)
    ELSE IF src.type = tgt.type /\ src.type = "object"
         THEN check_object_assignability(src, tgt)
         ELSE src.type = "integer" /\ tgt.type = "number"

\* Mutant: boolean widens to integer as well (bool is an int in Python)
is_type_assignable_bool_widening(src, tgt) ==
    IF src.type = tgt.type
    THEN IF src.type = "array"
         THEN is_type_assignable(src.items, tgt.items)
         ELSE IF src.type = "object"
              THEN check_object_assignability(src, tgt)
              ELSE TRUE
    ELSE \/ src.type = "integer" /\ tgt.type = "number"
         \/ src.type = "boolean" /\ tgt.type = "integer"

\* Mutant: the widening is applied in both directions
is_type_assignable_symmetric_widening(src, tgt) ==
    IF src.type = tgt.type
    THEN IF src.type = "array"
         THEN is_type_assignable(src.items, tgt.items)
         ELSE IF src.type = "object"
              THEN check_object_assignability(src, tgt)
              ELSE TRUE
    ELSE {src.type, tgt.type} = {"integer", "number"}

is_type_assignable(src, tgt) ==
    IF src.type = tgt.type
    THEN IF src.type = "array"
         THEN is_type_assignable(src.items, tgt.items)
         ELSE IF src.type = "object"
              THEN check_object_assignability(src, tgt)
              ELSE TRUE
    ELSE IF src.type = "integer" /\ tgt.type = "number"
         THEN TRUE
         ELSE FALSE

-----------------------------------------------------------------------------
(* SkillValidator, validation/validator.py *)

\* Most offending items of one kind in a parsed skill
MaxFindings == 1

DescriptionLimit == 1024

DefaultMaxTokens == 5000

Severity == {"ERROR", "WARNING", "INFO"}

ValidationIssue(code, severity) == [code |-> code, severity |-> severity]

Repeat(x, n) == [i \in 1..n |-> x]

Lower == {"a"}
Digit == {"1"}

\* Names as character sequences: missing, valid and invalid ones
NameSamples == { << >>, <<"a">>, <<"a", "1">>, <<"a", "-">>, <<"A">> }

\* ^[a-z][a-z0-9-]*[a-z0-9]$|^[a-z]$
NAME_PATTERN(name) ==
    /\ Len(name) >= 1
    /\ name[1] \in Lower
    /\ \/ Len(name) = 1
       \/ /\ \A i \in 2..(Len(name) - 1) : name[i] \in Lower \cup Digit \cup {"-"}
          /\ name[Len(name)] \in Lower \cup Digit

CodeBlockKinds == {"none", "python", "mermaid:graph", "mermaid:unknown"}

Documents ==
    [ name : NameSamples,
      description_length : {0, DescriptionLimit, DescriptionLimit + 1},
      nonstandard_block_ids : 0..MaxFindings,
      unresolved_links : 0..MaxFindings,
      invalid_callouts : 0..MaxFindings,
      code_blocks : UNION { [1..n -> CodeBlockKinds] : n \in 0..MaxFindings },
      inconsistent_tag_groups : 0..MaxFindings,
      orphan_footnote_refs : 0..MaxFindings,
      unused_footnote_defs : 0..MaxFindings,
      tiktoken : BOOLEAN,
      token_count : {DefaultMaxTokens, DefaultMaxTokens + 1} ]

validate_frontmatter(doc) ==
    ( IF doc.name = << >>
      THEN << ValidationIssue("E002", "ERROR") >>
      ELSE IF ~NAME_PATTERN(doc.name)
           THEN << ValidationIssue("E003", "ERROR") >>
           ELSE << >> )
    \o
    ( IF doc.description_length = 0
      THEN << ValidationIssue("E002", "ERROR") >>
      ELSE IF doc.description_length > DescriptionLimit
           THEN << ValidationIssue("W001", "WARNING") >>
           ELSE << >> )

validate_block_ids(doc) ==
    Repeat(ValidationIssue("W002", "WARNING"), doc.nonstandard_block_ids)

validate_wikilinks(doc) ==
    Repeat(ValidationIssue("W003", "WARNING"), doc.unresolved_links)

validate_callouts(doc) ==
    Repeat(ValidationIssue("E005", "ERROR"), doc.invalid_callouts)

RECURSIVE validate_code_blocks(_)
validate_code_blocks(blocks) ==
    IF blocks = << >> THEN << >>
    ELSE ( IF Head(blocks) = "none"
           THEN << ValidationIssue("W005", "WARNING") >>
           ELSE IF Head(blocks) = "mermaid:unknown"
                THEN << ValidationIssue("E010", "ERROR") >>
                ELSE << >> )
         \o validate_code_blocks(Tail(blocks))

validate_tags(doc) ==
    Repeat(ValidationIssue("W006", "WARNING"), doc.inconsistent_tag_groups)

validate_footnotes(doc) ==
    Repeat(ValidationIssue("E008", "ERROR"), doc.orphan_footnote_refs)
        \o Repeat(ValidationIssue("W007", "WARNING"), doc.unused_footnote_defs)

validate_token_budget(doc) ==
    IF doc.tiktoken /\ doc.token_count > DefaultMaxTokens
    THEN << ValidationIssue("W004", "WARNING") >>
    ELSE << >>

compute_metrics(doc) ==
    [ unresolved_link_count |-> doc.unresolved_links,
      code_block_count |-> Len(doc.code_blocks) ]

\* Mutant: a result is valid only when it holds no issue at all
determine_validity_no_issue(issues) == Len(issues) = 0

\* valid = not any(i.severity == Severity.ERROR for i in issues)
determine_validity(issues) ==
    ~ \E i \in 1..Len(issues) : issues[i].severity = "ERROR"

validate(doc) ==
    LET issues == validate_frontmatter(doc)
                    \o validate_block_ids(doc)
                    \o validate_wikilinks(doc)
                    \o validate_callouts(doc)
                    \o validate_code_blocks(doc.code_blocks)
                    \o validate_tags(doc)
                    \o validate_footnotes(doc)
                    \o validate_token_budget(doc)
    IN  [ valid |-> determine_validity(issues),
          issues |-> issues,
          metrics |-> compute_metrics(doc) ]

NoReport ==
    [ valid |-> FALSE, issues |-> << >>,
      metrics |-> [unresolved_link_count |-> 0, code_block_count |-> 0] ]

NoDocument ==
    [ name |-> << >>, description_length |-> 0, nonstandard_block_ids |-> 0,
      unresolved_links |-> 0, invalid_callouts |-> 0, code_blocks |-> << >>,
      inconsistent_tag_groups |-> 0, orphan_footnote_refs |-> 0,
      unused_footnote_defs |-> 0, tiktoken |-> FALSE, token_count |-> DefaultMaxTokens ]

IdleValidator ==
    /\ document = NoDocument
    /\ report = NoReport
    /\ vpc = "idle"

-----------------------------------------------------------------------------
(* Contract compatibility, VALIDATION.md section 2.1 and the composability  *)
(* specification section 3.1                                                *)

\* Most properties a producer output declares
MaxProducerFields == 2

ConsumerFields == {"to", "subject", "body"}
ProducerFields == ConsumerFields \cup {"user"}

UserRecord ==
    Obj([f \in {"id", "name", "email"} |-> Prim("string")], {"id", "name", "email"})

ContractFieldTypes == {Prim("string"), Prim("integer"), Prim("number"), UserRecord}

\* Producer outputs: the checker reads their properties only
ProducerOutputs ==
    { o \in ObjectsOver(ProducerFields, ContractFieldTypes) :
        /\ o.required = DOMAIN o.properties
        /\ Cardinality(DOMAIN o.properties) <= MaxProducerFields }

\* Consumer inputs: every property is either required or optional
ConsumerInputs == ObjectsOver(ConsumerFields, ContractFieldTypes)

\* The orders in which a Python set of names may be iterated
Orders(S) ==
    { o \in [1..Cardinality(S) -> S] : \A i, j \in 1..Cardinality(S) : o[i] = o[j] => i = j }

ContractError(error_type, field, producer_schema, consumer_schema) ==
    [error_type |-> error_type, field |-> field,
     producer_schema |-> producer_schema, consumer_schema |-> consumer_schema]

\* Mutant: presence is checked for every declared consumer property
consumer_required_all_properties(consumer) == DOMAIN consumer.properties

consumer_required(consumer) == consumer.required

\* One iteration of the loop over the required fields
field_errors(field, producer, consumer) ==
    IF field \notin DOMAIN producer.properties
    THEN << ContractError("MISSING_REQUIRED_FIELD", field, producer, consumer) >>
    ELSE IF ~is_type_assignable(producer.properties[field], consumer.properties[field])
         THEN << ContractError("TYPE_MISMATCH", field,
                               producer.properties[field], consumer.properties[field]) >>
         ELSE << >>

RECURSIVE check_fields(_, _, _)

\* Mutant: the loop returns at the first failure
check_fields_first_failure(order, producer, consumer) ==
    IF order = << >> THEN << >>
    ELSE LET e == field_errors(Head(order), producer, consumer)
         IN  IF e # << >> THEN e ELSE check_fields(Tail(order), producer, consumer)

check_fields(order, producer, consumer) ==
    IF order = << >> THEN << >>
    ELSE field_errors(Head(order), producer, consumer)
            \o check_fields(Tail(order), producer, consumer)

RECURSIVE UnexpectedFields(_, _, _)
UnexpectedFields(names, producer, consumer) ==
    IF names = {} THEN << >>
    ELSE LET f == CHOOSE n \in names : TRUE
         IN  << ContractError("TYPE_MISMATCH", f, producer.properties[f], consumer) >>
                \o UnexpectedFields(names \ {f}, producer, consumer)

\* Mutant: a producer property the consumer does not declare is a mismatch
check_contract_compatibility_closed(order, producer, consumer) ==
    LET errors == check_fields(order, producer, consumer)
                    \o UnexpectedFields(DOMAIN producer.properties \ DOMAIN consumer.properties,
                                        producer, consumer)
    IN  [compatible |-> Len(errors) = 0, errors |-> errors]

check_contract_compatibility(order, producer, consumer) ==
    LET errors == check_fields(order, producer, consumer)
    IN  [compatible |-> Len(errors) = 0, errors |-> errors]

\* Mutant: the gate stops after the presence test
is_structurally_compatible_presence_only(producer, consumer) ==
    consumer.required \ DOMAIN producer.properties = {}

is_structurally_compatible(producer, consumer) ==
    IF consumer.required \ DOMAIN producer.properties # {}
    THEN FALSE
    ELSE \A field \in consumer.required :
            is_type_assignable(producer.properties[field], consumer.properties[field])

\* No call of is_type_assignable is under way
IdleAssign ==
    /\ source = Prim("string")
    /\ target = Prim("string")
    /\ assignable = FALSE
    /\ apc = "idle"

NoContractResult == [compatible |-> FALSE, errors |-> << >>]

IdleContract ==
    /\ producer_output = Obj(<< >>, {})
    /\ consumer_input = Obj(<< >>, {})
    /\ result = NoContractResult
    /\ structural = FALSE
    /\ cpc = "idle"
    /\ spc = "idle"

-----------------------------------------------------------------------------
(* Composition graph validation, VALIDATION.md section 2.3 *)

\* Most entries of one record's composes list
MaxComposes == 2

SkillNames == {"A", "B", "C"}

Levels == {1, 2, 3}

\* Two interfaces: one requires a string `user` and produces an integer
\* `user`, the other requires nothing and produces `sent`.
Interfaces ==
    { [ input_schema  |-> Obj([f \in {"user"} |-> Prim("string")], {"user"}),
        output_schema |-> Obj([f \in {"user"} |-> Prim("integer")], {"user"}) ],
      [ input_schema  |-> Obj([f \in {"user"} |-> Prim("string")], {}),
        output_schema |-> Obj([f \in {"sent"} |-> Prim("boolean")], {"sent"}) ] }

SkillRecords ==
    { [ level |-> l, composes |-> c,
        input_schema |-> i.input_schema, output_schema |-> i.output_schema ] :
        l \in Levels,
        c \in {x \in SUBSET SkillNames : Cardinality(x) <= MaxComposes},
        i \in Interfaces }

Registries ==
    UNION { [D -> SkillRecords] : D \in (SUBSET SkillNames) \ {{}} }

\* Edges run (composed, composer); names absent from the registry give no edge
build_dependency_graph(reg) ==
    [ nodes |-> DOMAIN reg,
      edges |-> { e \in (DOMAIN reg) \X (DOMAIN reg) : e[1] \in reg[e[2]].composes } ]

Paths(nodes) ==
    UNION { {p \in [1..n -> nodes] : \A i, j \in 1..n : p[i] = p[j] => i = j} :
            n \in 1..Cardinality(nodes) }

IsCircuit(graph, p) ==
    /\ \A i \in 1..(Len(p) - 1) : <<p[i], p[i + 1]>> \in graph.edges
    /\ <<p[Len(p)], p[1]>> \in graph.edges

Rotations(p) ==
    { [i \in 1..Len(p) |-> p[((i + k - 1) % Len(p)) + 1]] : k \in 0..(Len(p) - 1) }

\* nx.simple_cycles: every elementary circuit, self-loops included, each once;
\* a circuit is the set of node lists that spell it
detect_cycles(graph) ==
    { Rotations(p) : p \in {q \in Paths(graph.nodes) : IsCircuit(graph, q)} }

None == "None"

CompositionError(error_type, skills_involved, producer_skill, consumer_skill, field) ==
    [ error_type |-> error_type, skills_involved |-> skills_involved,
      producer_skill |-> producer_skill, consumer_skill |-> consumer_skill,
      field |-> field ]

edge_errors(reg, producer, consumer) ==
    LET required == consumer_required(reg[consumer].input_schema)
        res == check_contract_compatibility(
                   CHOOSE o \in Orders(required) : TRUE,
                   reg[producer].output_schema, reg[consumer].input_schema)
    IN  [ i \in 1..Len(res.errors) |->
            CompositionError(res.errors[i].error_type, None,
                             producer, consumer, res.errors[i].field) ]

RECURSIVE validate_edges(_, _)
validate_edges(reg, edges) ==
    IF edges = << >> THEN << >>
    ELSE edge_errors(reg, Head(edges)[1], Head(edges)[2])
             \o validate_edges(reg, Tail(edges))

NoRegistry == << >>

IdleGraph ==
    /\ registry = NoRegistry
    /\ composition_errors = << >>
    /\ gpc = "idle"

-----------------------------------------------------------------------------
(* Level rules, composability specification section 1.3 *)

\* Error codes of validate_level_rules and their names
ErrorCodeReference ==
    [ E004 |-> "SKILL_NOT_FOUND",
      E010 |-> "LEVEL_VIOLATION",
      E013 |-> "MISSING_COMPOSITION",
      E014 |-> "INVALID_L2_COMPOSE",
      E015 |-> "INVALID_L3_COMPOSE" ]

\* Error(code, message): the message names the skill and the composed skill
Error(code, name, composed_name) ==
    [ code |-> code, name |-> name, composed_name |-> composed_name ]

\* Mutant: a name the registry lacks is passed over in silence
composed_errors_silent_miss(reg, name, composed_name) ==
    IF composed_name \notin DOMAIN reg
    THEN << >>
    ELSE ( IF reg[name].level = 2 /\ reg[composed_name].level # 1
           THEN << Error("E014", name, composed_name) >> ELSE << >> )
         \o
         ( IF reg[name].level = 3 /\ reg[composed_name].level = 3
           THEN << Error("E015", name, composed_name) >> ELSE << >> )

\* One turn of the loop over skill.composes
composed_errors(reg, name, composed_name) ==
    IF composed_name \notin DOMAIN reg
    THEN << Error("E004", None, composed_name) >>
    ELSE ( IF reg[name].level = 2 /\ reg[composed_name].level # 1
           THEN << Error("E014", name, composed_name) >> ELSE << >> )
         \o
         ( IF reg[name].level = 3 /\ reg[composed_name].level = 3
           THEN << Error("E015", name, composed_name) >> ELSE << >> )

RECURSIVE composes_errors(_, _, _)
\* Mutant: the loop ends at the first name that raises an error
composes_errors_stop_at_first(reg, name, composes) ==
    IF composes = << >> THEN << >>
    ELSE LET first == composed_errors(reg, name, Head(composes))
         IN  IF first # << >> THEN first
             ELSE composes_errors(reg, name, Tail(composes))

composes_errors(reg, name, composes) ==
    IF composes = << >> THEN << >>
    ELSE composed_errors(reg, name, Head(composes))
             \o composes_errors(reg, name, Tail(composes))

\* Mutant: a level-1 skill gets one error per composed name
validate_level_rules_per_name(reg, name, composes) ==
    IF reg[name].level = 1
    THEN [ i \in 1..Len(composes) |-> Error("E010", name, None) ]
    ELSE ( IF composes = << >>
           THEN << Error("E013", name, None) >> ELSE << >> )
         \o composes_errors(reg, name, composes)

\* composes is skill.composes in its listed order
validate_level_rules(reg, name, composes) ==
    IF reg[name].level = 1
    THEN IF composes # << >>
         THEN << Error("E010", name, None) >> ELSE << >>
    ELSE ( IF composes = << >>
           THEN << Error("E013", name, None) >> ELSE << >> )
         \o composes_errors(reg, name, composes)

IdleLevel ==
    /\ skill = None
    /\ level_errors = << >>
    /\ lpc = "idle"

-----------------------------------------------------------------------------
(* Diamond dependencies, composability specification section 2.3 *)

\* The skills that compose n, n itself left out
Parents(graph, n) == { m \in graph.nodes : m # n /\ <<n, m>> \in graph.edges }

DiamondWarning(name, parents) ==
    [ code |-> "E016", severity |-> "WARNING", skill |-> name, parents |-> parents ]

\* One warning for every skill with more than one composing parent
findDiamonds(graph) ==
    { DiamondWarning(n, Parents(graph, n)) :
        n \in { m \in graph.nodes : Cardinality(Parents(graph, m)) > 1 } }

NoDiamondReport == [ valid |-> FALSE, issues |-> << >> ]

IdleDiamond ==
    /\ diamond_report = NoDiamondReport
    /\ wpc = "idle"

-----------------------------------------------------------------------------
(* compose, src/composition/compose.ts *)

SkillOperation == {"READ", "WRITE", "TRANSFORM"}

Undefined == "undefined"

TsSkillNames == {"fetch-user", "enrich-user", "send-email"}

\* Skill<TInput, TOutput>: a name and an optional operation
TsSkills ==
    { [name |-> <<n>>] : n \in TsSkillNames }
        \cup [ name : { <<n>> : n \in TsSkillNames }, operation : SkillOperation ]

\* The arrow that joins the two names
Arrow == "->"

\* obj.key in TypeScript: undefined when the object lacks the property
Property(obj, key) == IF key \in DOMAIN obj THEN obj[key] ELSE Undefined

\* The returned object literal holds name and execute, nothing else
compose(s1, s2) == [ name |-> s1.name \o << Arrow >> \o s2.name ]

NoSkill == [ name |-> << >> ]

IdleCompose ==
    /\ skill1 = NoSkill
    /\ skill2 = NoSkill
    /\ composed_skill = NoSkill
    /\ kpc = "idle"

-----------------------------------------------------------------------------
(* Effect and operation inference, composability specification section 5 *)

\* TRANSFORM < READ < WRITE
OperationSeverity == [ TRANSFORM |-> 0, READ |-> 1, WRITE |-> 2 ]

Effects == {"Query", "Mutate", "Fail"}

\* What a skill is classified as, declared or inferred
Classifications == [ operation : SkillOperation, effects : SUBSET Effects ]

\* A composite: its composed skills and their classifications
Composites ==
    UNION { [D -> Classifications] : D \in (SUBSET SkillNames) \ {{}} }

\* Mutant: only the effects all composed skills share
infer_effects_shared(c) ==
    { f \in Effects : \A n \in DOMAIN c : f \in c[n].effects }

\* The union of the composed skills' effects
infer_effects(c) == UNION { c[n].effects : n \in DOMAIN c }

\* Mutant: the lowest-severity operation of the composed skills
infer_operation_lowest(c) ==
    CHOOSE op \in { c[n].operation : n \in DOMAIN c } :
        \A n \in DOMAIN c : OperationSeverity[c[n].operation] >= OperationSeverity[op]

\* The highest-severity operation of the composed skills
infer_operation(c) ==
    CHOOSE op \in { c[n].operation : n \in DOMAIN c } :
        \A n \in DOMAIN c : OperationSeverity[c[n].operation] <= OperationSeverity[op]

infer(c) == [ operation |-> infer_operation(c), effects |-> infer_effects(c) ]

NoClassification == [ operation |-> "TRANSFORM", effects |-> {} ]

IdleInference ==
    /\ composite = << >>
    /\ inferred = NoClassification
    /\ previous = NoClassification
    /\ last_edit = "idle"

-----------------------------------------------------------------------------
(* Version constraints, composability specification section 4.2 *)

\* The digits a version component is written with, and their values
DigitValue == ("0" :> 0) @@ ("1" :> 1) @@ ("2" :> 2) @@ ("9" :> 9)

\* "1.2.0" as the sequence of its characters
VersionStrings == { <<a, ".", b, ".", c>> : a, b, c \in DOMAIN DigitValue }

\* exact, >=, caret, tilde
ConstraintOperators == { << >>, <<">", "=">>, <<"^">>, <<"~">> }

ConstraintStrings == { op \o v : op \in ConstraintOperators, v \in VersionStrings }

parse_version(str) == << DigitValue[str[1]], DigitValue[str[3]], DigitValue[str[5]] >>

constraint_operator(str) == SubSeq(str, 1, Len(str) - 5)

constraint_version(str) == parse_version(SubSeq(str, Len(str) - 4, Len(str)))

\* Semantic-version precedence: v comes strictly before w
precedes(v, w) ==
    \E i \in 1..3 : v[i] < w[i] /\ \A j \in 1..(i - 1) : v[j] = w[j]

\* Mutant: a caret constraint is a bare minimum version
satisfies_caret_any_major(ver, con) ==
    LET v == parse_version(ver)
        c == constraint_version(con)
        op == constraint_operator(con)
    IN  CASE op = << >> -> v = c
          [] op = <<">", "=">> -> ~precedes(v, c)
          [] op = <<"^">> -> ~precedes(v, c)
          [] op = <<"~">> -> ~precedes(v, c) /\ precedes(v, <<c[1], c[2] + 1, 0>>)

\* Mutant: a tilde constraint admits what the caret admits
satisfies_tilde_as_caret(ver, con) ==
    LET v == parse_version(ver)
        c == constraint_version(con)
        op == constraint_operator(con)
    IN  CASE op = << >> -> v = c
          [] op = <<">", "=">> -> ~precedes(v, c)
          [] op = <<"^">> -> ~precedes(v, c) /\ precedes(v, <<c[1] + 1, 0, 0>>)
          [] op = <<"~">> -> ~precedes(v, c) /\ precedes(v, <<c[1] + 1, 0, 0>>)

\* The range a constraint admits: from its version up to the next major
\* (caret) or the next minor (tilde)
satisfies(ver, con) ==
    LET v == parse_version(ver)
        c == constraint_version(con)
        op == constraint_operator(con)
    IN  CASE op = << >> -> v = c
          [] op = <<">", "=">> -> ~precedes(v, c)
          [] op = <<"^">> -> ~precedes(v, c) /\ precedes(v, <<c[1] + 1, 0, 0>>)
          [] op = <<"~">> -> ~precedes(v, c) /\ precedes(v, <<c[1], c[2] + 1, 0>>)

\* E006 VERSION_MISMATCH: Skill version doesn't satisfy constraint
VersionMismatch(ver, con) ==
    [ code |-> "E006", error_type |-> "VERSION_MISMATCH",
      version |-> ver, constraint |-> con ]

check_version(ver, con) ==
    IF satisfies(ver, con) THEN << >> ELSE << VersionMismatch(ver, con) >>

NoVersion == << >>

IdleResolver ==
    /\ constraint = NoVersion
    /\ version = NoVersion
    /\ version_errors = << >>
    /\ rpc = "idle"

-----------------------------------------------------------------------------
(* Breaking change detection, composability specification section 4.3 *)

OutputFieldNames == {"id", "total"}

InputFieldNames == {"query", "limit"}

OutputFieldTypes == {Prim("number"), Prim("integer")}

\* A version of a skill: its input and output schemas
SkillDefinitions ==
    [ input_schema : ObjectsOver(InputFieldNames, {Prim("string")}),
      output_schema : { s \in ObjectsOver(OutputFieldNames, OutputFieldTypes) :
                            s.required = DOMAIN s.properties } ]

Change(type, field, message) == [ type |-> type, field |-> field, message |-> message ]

\* old_outputs - new_outputs
removed_outputs(o, n) ==
    DOMAIN o.output_schema.properties \ DOMAIN n.output_schema.properties

\* the fields of new_required - old_required that old.input_schema lacks
added_required_inputs(o, n) ==
    { added \in n.input_schema.required \ o.input_schema.required :
          added \notin DOMAIN o.input_schema.properties }

\* The two loops, each over a set in the order the iteration yields
detect_breaking_changes(o, n, removed_order, added_order) ==
    [ i \in 1..Len(removed_order) |->
          Change("BREAKING", removed_order[i], "Output field was removed") ]
    \o
    [ i \in 1..Len(added_order) |->
          Change("BREAKING", added_order[i], "New required input field") ]

NoSkillDefinition == [ input_schema |-> Obj(<< >>, {}), output_schema |-> Obj(<< >>, {}) ]

IdleBreaking ==
    /\ old = NoSkillDefinition
    /\ new = NoSkillDefinition
    /\ changes = << >>
    /\ bpc = "idle"

-----------------------------------------------------------------------------
(* is_type_assignable on schemas with references, VALIDATION.md sections *)
(* 1.1, 1.2 and 2.2                                                      *)

\* Nested calls the interpreter allows before it raises RecursionError
RecursionLimit == 4

DefNames == {"User", "Event"}

\* $ref: "#/$defs/User"
Ref(n) == [ ref |-> n ]

RefLeaves == { Prim("string"), Prim("integer"), Prim("number") } \cup { Ref(n) : n \in DefNames }

\* A $defs entry: a primitive or an array
Definitions == { Prim("string"), Prim("integer"), Prim("number") } \cup { Arr(l) : l \in RefLeaves }

RefSchemas == RefLeaves \cup { Arr(l) : l \in RefLeaves }

\* "unresolved": the call gets the document as written; "resolved": each
\* $ref has been replaced by the definition it names
ReferenceModes == {"unresolved", "resolved"}

\* The node a call sees
view(d, mode, node) ==
    IF mode = "resolved" /\ "ref" \in DOMAIN node THEN d[node.ref] ELSE node

\* node.get("type")
get_type(node) == IF "type" \in DOMAIN node THEN node.type ELSE None

\* The $defs names a node mentions
RefsIn(node) ==
    IF "ref" \in DOMAIN node THEN { node.ref }
    ELSE IF get_type(node) = "array" /\ "ref" \in DOMAIN node.items THEN { node.items.ref }
    ELSE {}

\* The $defs names reachable from a set of names
RECURSIVE ReachableDefs(_, _)
ReachableDefs(d, names) ==
    LET more == names \cup UNION { RefsIn(d[n]) : n \in names }
    IN  IF more = names THEN names ELSE ReachableDefs(d, more)

\* A schema from which a definition that reaches itself can be reached
SelfReferential(d, node) ==
    \E n \in ReachableDefs(d, RefsIn(node)) : n \in ReachableDefs(d, RefsIn(d[n]))

NoFrame == [ source |-> Prim("string"), target |-> Prim("string") ]

IdleTraversal ==
    /\ defs = << >>
    /\ references = "unresolved"
    /\ root = NoFrame
    /\ frame = NoFrame
    /\ depth = 0
    /\ outcome = None
    /\ tpc = "idle"

-----------------------------------------------------------------------------
(* execute of skills built by compose, pipe and parallel,  *)
(* src/composition/compose.ts                              *)

\* The longest pipeline pipe is called with
MaxPipe == 3

RunnableSkillNames == {"good-skill", "failing-second", "uppercase-name"}

ResultFields == {"user", "permissions"}

\* A skill with an execute method: its name and the fields of its output
RunnableSkills ==
    [ name : { <<n>> : n \in RunnableSkillNames }, produces : (SUBSET ResultFields) \ {{}} ]

ExecuteInput == [ userId |-> "123" ]

\* What skill s resolves to when executed on input given
output_of(s, given) == [ f \in s.produces |-> [ by |-> s.name, given |-> given ] ]

JsError(message) == [ class |-> "Error", message |-> message ]

\* new SkillExecutionError(skillName, cause)
SkillExecutionError(skillName, cause) ==
    [ class |-> "SkillExecutionError", skillName |-> skillName, cause |-> cause ]

\* What a part may throw: a plain Error, or the wrapped error of a built skill
errors_thrown_by(s) ==
    { JsError(s.name), SkillExecutionError(s.name, JsError(s.name)) }

\* Unchecked compose for pipe
composeAny(s1, s2) == [ name |-> s1.name \o << Arrow >> \o s2.name ]

\* skills.reduce((acc, skill) => composeAny(acc, skill))
RECURSIVE reduce_composeAny(_, _)
reduce_composeAny(acc, rest) ==
    IF rest = << >> THEN acc
    ELSE reduce_composeAny(composeAny(acc, Head(rest)), Tail(rest))

pipe(parts) ==
    IF Len(parts) = 1 THEN [ name |-> parts[1].name ]
    ELSE reduce_composeAny([ name |-> parts[1].name ], Tail(parts))

\* `parallel(${skill1.name}, ${skill2.name})`
parallel(s1, s2) == [ name |-> << "parallel(" >> \o s1.name \o << ", " >> \o s2.name \o << ")" >> ]

\* The catch block of compose wraps with the name of the composed skill;
\* composeAny has no catch block
rethrown(how, parts, error) ==
    IF how = "compose"
    THEN SkillExecutionError(compose(parts[1], parts[2]).name, error)
    ELSE error

\* Mutant: on a shared field the first value is kept
spread_first_wins(r1, r2) ==
    [ f \in DOMAIN r1 \cup DOMAIN r2 |-> IF f \in DOMAIN r1 THEN r1[f] ELSE r2[f] ]

\* { ...r1, ...r2 }
spread(r1, r2) ==
    [ f \in DOMAIN r1 \cup DOMAIN r2 |-> IF f \in DOMAIN r2 THEN r2[f] ELSE r1[f] ]

Pending == [ state |-> "pending" ]

Fulfilled(value) == [ state |-> "fulfilled", value |-> value ]

Rejected(error) == [ state |-> "rejected", error |-> error ]

IdleExecute ==
    /\ combinator = None
    /\ skills = << >>
    /\ execute_input = ExecuteInput
    /\ calls = << >>
    /\ returns = << >>
    /\ settled = Pending
    /\ xpc = "idle"

-----------------------------------------------------------------------------
(* The validate-skills action, .github/actions/validate-skills/validate.sh *)

\* The most skill directories find yields
MaxSkillDirs == 2

\* skills-ref validate on a directory: exit 0; non-zero with "  - error"
\* lines; non-zero with no such line
Verdicts == {"valid", "listed", "unlisted"}

FailOnErrorInputs == {"true", "false", "TRUE"}

\* An empty array expanded under set -u, as in " ${skill_dirs[*]} " and
\* "${skill_dirs[@]}": an unbound variable that ends find_skill_dirs before
\* bash 4.4, no word from 4.4 on
Shells == {"bash-4.3", "bash-5"}

\* The entry mapfile reads from the empty line printf '%s\n' prints when it
\* is given no argument: the empty string, which names the workspace itself
EmptyLine == 0

\* mapfile -t SKILL_DIRS < <(find_skill_dirs)
find_skill_dirs(found, sh) ==
    IF sh = "bash-4.3" THEN << >>
    ELSE IF found # << >> THEN [ i \in 1..Len(found) |-> i ]
    ELSE << EmptyLine >>

\* The validator's verdict on $GITHUB_WORKSPACE/$skill_dir
verdict_on(skill_dir, found, on_workspace) ==
    IF skill_dir = EmptyLine THEN on_workspace ELSE found[skill_dir]

NoOutput == [ written |-> FALSE ]

Outputs(found, valid, invalid) ==
    [ written |-> TRUE, found |-> found, valid |-> valid, invalid |-> invalid ]

NotExited == -1

IdleAction ==
    /\ FAIL_ON_ERROR = "true"
    /\ discovered = << >>
    /\ workspace_verdict = "valid"
    /\ shell = "bash-5"
    /\ SKILL_DIRS = << >>
    /\ AGENTSKILLS_FOUND = 0
    /\ AGENTSKILLS_VALID = 0
    /\ AGENTSKILLS_INVALID = 0
    /\ position = 0
    /\ GITHUB_OUTPUT = NoOutput
    /\ exit_status = NotExited
    /\ hpc = "idle"

-----------------------------------------------------------------------------
(* The loop over graph.edges() of validate_composition_graph, one edge a step *)

\* validate_composition_graph reads no level: registries of level-3 skills
EdgeCheckRegistries == { reg \in Registries : \A n \in DOMAIN reg : reg[n].level = 3 }

IdleEdges == unchecked = {}

-----------------------------------------------------------------------------
(* Calls of check_contract_compatibility and is_structurally_compatible *)

InitContract ==
    /\ producer_output \in ProducerOutputs
    /\ consumer_input \in ConsumerInputs
    /\ result = NoContractResult
    /\ structural = FALSE
    /\ cpc = "call"
    /\ spc = "call"
    /\ IdleAssign
    /\ IdleValidator
    /\ IdleGraph
    /\ IdleLevel
    /\ IdleDiamond
    /\ IdleCompose
    /\ IdleInference
    /\ IdleResolver
    /\ IdleBreaking
    /\ IdleTraversal
    /\ IdleExecute
    /\ IdleAction
    /\ IdleEdges

CheckContractCompatibility ==
    /\ cpc = "call"
    /\ \E order \in Orders(consumer_required(consumer_input)) :
          result' = check_contract_compatibility(order, producer_output, consumer_input)
    /\ cpc' = "done"
    /\ UNCHANGED <<producer_output, consumer_input, structural, spc, avars, dvars, gvars, lvars, wvars, kvars, ivars, rvars, bvars, tvars, xvars, hvars, evars>>

IsStructurallyCompatible ==
    /\ spc = "call"
    /\ structural' = is_structurally_compatible(producer_output, consumer_input)
    /\ spc' = "done"
    /\ UNCHANGED <<producer_output, consumer_input, result, cpc, avars, dvars, gvars, lvars, wvars, kvars, ivars, rvars, bvars, tvars, xvars, hvars, evars>>

NextContract == CheckContractCompatibility \/ IsStructurallyCompatible

SpecContract == InitContract /\ [][NextContract]_vars

-----------------------------------------------------------------------------
(* Calls of is_type_assignable(source, target) on enumerated schemas *)

InitAssign ==
    /\ source \in AssignUniverse
    /\ target \in AssignUniverse
    /\ assignable = FALSE
    /\ apc = "call"
    /\ IdleContract
    /\ IdleValidator
    /\ IdleGraph
    /\ IdleLevel
    /\ IdleDiamond
    /\ IdleCompose
    /\ IdleInference
    /\ IdleResolver
    /\ IdleBreaking
    /\ IdleTraversal
    /\ IdleExecute
    /\ IdleAction
    /\ IdleEdges

IsTypeAssignableCall ==
    /\ apc = "call"
    /\ assignable' = is_type_assignable(source, target)
    /\ apc' = "done"
    /\ UNCHANGED <<source, target, cvars, dvars, gvars, lvars, wvars, kvars, ivars, rvars, bvars, tvars, xvars, hvars, evars>>

NextAssign == IsTypeAssignableCall

SpecAssign == InitAssign /\ [][NextAssign]_vars

-----------------------------------------------------------------------------
(* Runs of SkillValidator.validate on enumerated documents *)

InitValidator ==
    /\ document \in Documents
    /\ report = NoReport
    /\ vpc = "call"
    /\ IdleAssign
    /\ IdleContract
    /\ IdleGraph
    /\ IdleLevel
    /\ IdleDiamond
    /\ IdleCompose
    /\ IdleInference
    /\ IdleResolver
    /\ IdleBreaking
    /\ IdleTraversal
    /\ IdleExecute
    /\ IdleAction
    /\ IdleEdges

Validate ==
    /\ vpc = "call"
    /\ report' = validate(document)
    /\ vpc' = "done"
    /\ UNCHANGED <<document, avars, cvars, gvars, lvars, wvars, kvars, ivars, rvars, bvars, tvars, xvars, hvars, evars>>

NextValidator == Validate

SpecValidator == InitValidator /\ [][NextValidator]_vars

-----------------------------------------------------------------------------
(* Runs of validate_composition_graph on enumerated registries *)

InitGraph ==
    /\ registry \in Registries
    /\ composition_errors = << >>
    /\ gpc = "call"
    /\ IdleAssign
    /\ IdleContract
    /\ IdleValidator
    /\ IdleLevel
    /\ IdleDiamond
    /\ IdleCompose
    /\ IdleInference
    /\ IdleResolver
    /\ IdleBreaking
    /\ IdleTraversal
    /\ IdleExecute
    /\ IdleAction
    /\ IdleEdges

\* Mutant: the cycle is reported once per node it can be spelled from
ReportCycle_per_rotation ==
    /\ gpc = "call"
    /\ LET cycles == detect_cycles(build_dependency_graph(registry))
       IN  /\ cycles # {}
           /\ \E cycle \in cycles : \E spellings \in Orders(cycle) :
                 composition_errors' =
                     [ i \in 1..Len(spellings) |->
                         CompositionError("CIRCULAR_DEPENDENCY", spellings[i],
                                          None, None, None) ]
    /\ gpc' = "done"
    /\ UNCHANGED <<registry, avars, cvars, dvars, lvars, wvars, kvars, ivars, rvars, bvars, tvars, xvars, hvars, evars>>

\* Mutant: after reporting the cycle the edges are checked all the same
ReportCycle_then_edges ==
    /\ gpc = "call"
    /\ LET graph == build_dependency_graph(registry)
           cycles == detect_cycles(graph)
       IN  /\ cycles # {}
           /\ \E cycle \in cycles : \E first \in cycle : \E edges \in Orders(graph.edges) :
                 composition_errors' =
                     << CompositionError("CIRCULAR_DEPENDENCY", first, None, None, None) >>
                         \o validate_edges(registry, edges)
    /\ gpc' = "done"
    /\ UNCHANGED <<registry, avars, cvars, dvars, lvars, wvars, kvars, ivars, rvars, bvars, tvars, xvars, hvars, evars>>

\* The first cycle of the list is reported and the function returns;
\* which circuit comes first, and from which node it is spelled, is the
\* library's choice.
ReportCycle ==
    /\ gpc = "call"
    /\ LET cycles == detect_cycles(build_dependency_graph(registry))
       IN  /\ cycles # {}
           /\ \E cycle \in cycles : \E first \in cycle :
                 composition_errors' =
                     << CompositionError("CIRCULAR_DEPENDENCY", first, None, None, None) >>
    /\ gpc' = "done"
    /\ UNCHANGED <<registry, avars, cvars, dvars, lvars, wvars, kvars, ivars, rvars, bvars, tvars, xvars, hvars, evars>>

\* Without a cycle every edge is checked, in the order graph.edges() gives
ValidateEdges ==
    /\ gpc = "call"
    /\ LET graph == build_dependency_graph(registry)
       IN  /\ detect_cycles(graph) = {}
           /\ \E edges \in Orders(graph.edges) :
                 composition_errors' = validate_edges(registry, edges)
    /\ gpc' = "done"
    /\ UNCHANGED <<registry, avars, cvars, dvars, lvars, wvars, kvars, ivars, rvars, bvars, tvars, xvars, hvars, evars>>

ValidateCompositionGraph == ReportCycle \/ ValidateEdges

NextGraph == ValidateCompositionGraph

SpecGraph == InitGraph /\ [][NextGraph]_vars

-----------------------------------------------------------------------------
(* Calls of validate_level_rules(skill, registry) on enumerated registries *)

InitLevel ==
    /\ registry \in Registries
    /\ composition_errors = << >>
    /\ gpc = "idle"
    /\ skill = None
    /\ level_errors = << >>
    /\ lpc = "call"
    /\ IdleAssign
    /\ IdleContract
    /\ IdleValidator
    /\ IdleDiamond
    /\ IdleCompose
    /\ IdleInference
    /\ IdleResolver
    /\ IdleBreaking
    /\ IdleTraversal
    /\ IdleExecute
    /\ IdleAction
    /\ IdleEdges

ValidateLevelRules ==
    /\ lpc = "call"
    /\ \E name \in DOMAIN registry : \E composes \in Orders(registry[name].composes) :
          /\ skill' = name
          /\ level_errors' = validate_level_rules(registry, name, composes)
    /\ lpc' = "done"
    /\ UNCHANGED <<avars, cvars, dvars, gvars, wvars, kvars, ivars, rvars, bvars, tvars, xvars, hvars, evars>>

NextLevel == ValidateLevelRules

SpecLevel == InitLevel /\ [][NextLevel]_vars

-----------------------------------------------------------------------------
(* Diamond detection on enumerated registries, assembled into a report *)

InitDiamond ==
    /\ registry \in Registries
    /\ composition_errors = << >>
    /\ gpc = "idle"
    /\ diamond_report = NoDiamondReport
    /\ wpc = "call"
    /\ IdleAssign
    /\ IdleContract
    /\ IdleValidator
    /\ IdleLevel
    /\ IdleCompose
    /\ IdleInference
    /\ IdleResolver
    /\ IdleBreaking
    /\ IdleTraversal
    /\ IdleExecute
    /\ IdleAction
    /\ IdleEdges

DetectDiamonds ==
    /\ wpc = "call"
    /\ \E issues \in Orders(findDiamonds(build_dependency_graph(registry))) :
          diamond_report' = [ valid |-> determine_validity(issues), issues |-> issues ]
    /\ wpc' = "done"
    /\ UNCHANGED <<avars, cvars, dvars, gvars, lvars, kvars, ivars, rvars, bvars, tvars, xvars, hvars, evars>>

NextDiamond == DetectDiamonds

SpecDiamond == InitDiamond /\ [][NextDiamond]_vars

-----------------------------------------------------------------------------
(* Calls of compose(skill1, skill2) *)

InitCompose ==
    /\ skill1 \in TsSkills
    /\ skill2 \in TsSkills
    /\ composed_skill = NoSkill
    /\ kpc = "call"
    /\ IdleAssign
    /\ IdleContract
    /\ IdleValidator
    /\ IdleGraph
    /\ IdleLevel
    /\ IdleDiamond
    /\ IdleInference
    /\ IdleResolver
    /\ IdleBreaking
    /\ IdleTraversal
    /\ IdleExecute
    /\ IdleAction
    /\ IdleEdges

Compose ==
    /\ kpc = "call"
    /\ composed_skill' = compose(skill1, skill2)
    /\ kpc' = "done"
    /\ UNCHANGED <<skill1, skill2, avars, cvars, dvars, gvars, lvars, wvars, ivars, rvars, bvars, tvars, xvars, hvars, evars>>

NextCompose == Compose

SpecCompose == InitCompose /\ [][NextCompose]_vars

-----------------------------------------------------------------------------
(* Inference kept up to date while a composite's composes list is edited *)

InitInference ==
    /\ composite \in Composites
    /\ inferred = infer(composite)
    /\ previous = infer(composite)
    /\ last_edit = "none"
    /\ IdleAssign
    /\ IdleContract
    /\ IdleValidator
    /\ IdleGraph
    /\ IdleLevel
    /\ IdleDiamond
    /\ IdleCompose
    /\ IdleResolver
    /\ IdleBreaking
    /\ IdleTraversal
    /\ IdleExecute
    /\ IdleAction
    /\ IdleEdges

Edited(c, edit) ==
    /\ composite' = c
    /\ inferred' = infer(c)
    /\ previous' = inferred
    /\ last_edit' = edit
    /\ UNCHANGED <<avars, cvars, dvars, gvars, lvars, wvars, kvars, rvars, bvars, tvars, xvars, hvars, evars>>

\* A skill is added to composes
AddComposed ==
    \E n \in SkillNames \ DOMAIN composite : \E k \in Classifications :
        Edited([m \in DOMAIN composite \cup {n} |->
                   IF m = n THEN k ELSE composite[m]], "add")

\* A skill is removed from composes, which stays non-empty
RemoveComposed ==
    /\ Cardinality(DOMAIN composite) > 1
    /\ \E n \in DOMAIN composite :
          Edited([m \in DOMAIN composite \ {n} |-> composite[m]], "remove")

\* The composite, with its inferred classification, becomes the one skill
\* composed by a composite of the next level
ComposeUpward ==
    /\ DOMAIN composite # {}
    /\ \E n \in SkillNames :
          Edited([m \in {n} |-> inferred], "lift")

NextInference == AddComposed \/ RemoveComposed \/ ComposeUpward

SpecInference == InitInference /\ [][NextInference]_vars

-----------------------------------------------------------------------------
(* A declared version constraint checked against an available version *)

InitResolver ==
    /\ constraint \in ConstraintStrings
    /\ version \in VersionStrings
    /\ version_errors = << >>
    /\ rpc = "call"
    /\ IdleAssign
    /\ IdleContract
    /\ IdleValidator
    /\ IdleGraph
    /\ IdleLevel
    /\ IdleDiamond
    /\ IdleCompose
    /\ IdleInference
    /\ IdleBreaking
    /\ IdleTraversal
    /\ IdleExecute
    /\ IdleAction
    /\ IdleEdges

CheckVersion ==
    /\ rpc = "call"
    /\ version_errors' = check_version(version, constraint)
    /\ rpc' = "done"
    /\ UNCHANGED <<constraint, version, avars, cvars, dvars, gvars, lvars, wvars, kvars, ivars, bvars, tvars, xvars, hvars, evars>>

NextResolver == CheckVersion

SpecResolver == InitResolver /\ [][NextResolver]_vars

-----------------------------------------------------------------------------
(* Calls of detect_breaking_changes(old, new) on two versions of a skill *)

InitBreaking ==
    /\ old \in SkillDefinitions
    /\ new \in SkillDefinitions
    /\ changes = << >>
    /\ bpc = "call"
    /\ IdleAssign
    /\ IdleContract
    /\ IdleValidator
    /\ IdleGraph
    /\ IdleLevel
    /\ IdleDiamond
    /\ IdleCompose
    /\ IdleInference
    /\ IdleResolver
    /\ IdleTraversal
    /\ IdleExecute
    /\ IdleAction
    /\ IdleEdges

DetectBreakingChanges ==
    /\ bpc = "call"
    /\ \E removed_order \in Orders(removed_outputs(old, new)),
          added_order \in Orders(added_required_inputs(old, new)) :
          changes' = detect_breaking_changes(old, new, removed_order, added_order)
    /\ bpc' = "done"
    /\ UNCHANGED <<old, new, avars, cvars, dvars, gvars, lvars, wvars, kvars, ivars, rvars, tvars, xvars, hvars, evars>>

NextBreaking == DetectBreakingChanges

SpecBreaking == InitBreaking /\ [][NextBreaking]_vars

-----------------------------------------------------------------------------
(* The nested calls of is_type_assignable(source, target), one per step *)

InitTraversal ==
    /\ defs \in [DefNames -> Definitions]
    /\ references \in ReferenceModes
    /\ root \in [ source : RefSchemas, target : RefSchemas ]
    /\ frame = root
    /\ depth = 1
    /\ outcome = None
    /\ tpc = "call"
    /\ IdleAssign
    /\ IdleContract
    /\ IdleValidator
    /\ IdleGraph
    /\ IdleLevel
    /\ IdleDiamond
    /\ IdleCompose
    /\ IdleInference
    /\ IdleResolver
    /\ IdleBreaking
    /\ IdleExecute
    /\ IdleAction
    /\ IdleEdges

source_type == get_type(view(defs, references, frame.source))

target_type == get_type(view(defs, references, frame.target))

\* return is_type_assignable(source.get("items"), target.get("items"))
NestedCall ==
    /\ tpc = "call"
    /\ source_type = target_type
    /\ source_type = "array"
    /\ depth < RecursionLimit
    /\ frame' = [ source |-> view(defs, references, frame.source).items,
                  target |-> view(defs, references, frame.target).items ]
    /\ depth' = depth + 1
    /\ UNCHANGED <<defs, references, root, outcome, tpc, avars, cvars, dvars, gvars, lvars, wvars, kvars, ivars, rvars, bvars, xvars, hvars, evars>>

\* The nested call that exceeds the interpreter's recursion limit
RaiseRecursionError ==
    /\ tpc = "call"
    /\ source_type = target_type
    /\ source_type = "array"
    /\ depth = RecursionLimit
    /\ outcome' = "RecursionError"
    /\ tpc' = "done"
    /\ UNCHANGED <<defs, references, root, frame, depth, avars, cvars, dvars, gvars, lvars, wvars, kvars, ivars, rvars, bvars, xvars, hvars, evars>>

\* return True / return False
ReturnResult ==
    /\ tpc = "call"
    /\ ~(source_type = target_type /\ source_type = "array")
    /\ outcome' = IF source_type = target_type THEN "True"
                  ELSE IF source_type = "integer" /\ target_type = "number" THEN "True"
                  ELSE "False"
    /\ tpc' = "done"
    /\ UNCHANGED <<defs, references, root, frame, depth, avars, cvars, dvars, gvars, lvars, wvars, kvars, ivars, rvars, bvars, xvars, hvars, evars>>

NextTraversal == NestedCall \/ RaiseRecursionError \/ ReturnResult

SpecTraversal == InitTraversal /\ [][NextTraversal]_vars

-----------------------------------------------------------------------------
(* execute of a skill built by compose(skill1, skill2) or pipe(...skills) *)

InitPipeline ==
    /\ \/ /\ combinator = "compose"
          /\ skills \in [1..2 -> RunnableSkills]
       \/ /\ combinator = "pipe"
          /\ skills \in UNION { [1..n -> RunnableSkills] : n \in 1..MaxPipe }
    /\ execute_input = ExecuteInput
    /\ calls = << >>
    /\ returns = << >>
    /\ settled = Pending
    /\ xpc = "call"
    /\ IdleAssign
    /\ IdleContract
    /\ IdleValidator
    /\ IdleGraph
    /\ IdleLevel
    /\ IdleDiamond
    /\ IdleCompose
    /\ IdleInference
    /\ IdleResolver
    /\ IdleBreaking
    /\ IdleTraversal
    /\ IdleAction
    /\ IdleEdges

\* Mutant: the next part is executed while the previous one is still running
CallNextSkill_without_await ==
    /\ xpc \in {"call", "awaiting"}
    /\ Len(calls) < Len(skills)
    /\ calls' = Append(calls,
                  [ skill |-> skills[Len(calls) + 1].name,
                    input |-> IF returns = << >> THEN execute_input
                              ELSE returns[Len(returns)].output ])
    /\ xpc' = "awaiting"
    /\ UNCHANGED <<combinator, skills, execute_input, returns, settled, avars, cvars, dvars, gvars, lvars, wvars, kvars, ivars, rvars, bvars, tvars, hvars, evars>>

\* skill1.execute(input), then skill2.execute(intermediate)
CallNextSkill ==
    /\ xpc = "call"
    /\ calls' = Append(calls,
                  [ skill |-> skills[Len(calls) + 1].name,
                    input |-> IF returns = << >> THEN execute_input
                              ELSE returns[Len(returns)].output ])
    /\ xpc' = "awaiting"
    /\ UNCHANGED <<combinator, skills, execute_input, returns, settled, avars, cvars, dvars, gvars, lvars, wvars, kvars, ivars, rvars, bvars, tvars, hvars, evars>>

\* The awaited promise is fulfilled: the next part is due, or the last
\* output is returned
SkillResolves ==
    /\ xpc = "awaiting"
    /\ LET k == Len(calls)
           out == output_of(skills[k], calls[k].input)
       IN  /\ returns' = Append(returns, [ skill |-> skills[k].name, output |-> out ])
           /\ IF k = Len(skills)
              THEN settled' = Fulfilled(out) /\ xpc' = "settled"
              ELSE settled' = settled /\ xpc' = "call"
    /\ UNCHANGED <<combinator, skills, execute_input, calls, avars, cvars, dvars, gvars, lvars, wvars, kvars, ivars, rvars, bvars, tvars, hvars, evars>>

\* The awaited promise is rejected: the error leaves execute, through the
\* catch block if there is one
SkillRejects ==
    /\ xpc = "awaiting"
    /\ \E error \in errors_thrown_by(skills[Len(calls)]) :
          settled' = Rejected(rethrown(combinator, skills, error))
    /\ xpc' = "settled"
    /\ UNCHANGED <<combinator, skills, execute_input, calls, returns, avars, cvars, dvars, gvars, lvars, wvars, kvars, ivars, rvars, bvars, tvars, hvars, evars>>

NextPipeline == CallNextSkill \/ SkillResolves \/ SkillRejects

SpecPipeline == InitPipeline /\ [][NextPipeline]_vars

-----------------------------------------------------------------------------
(* execute of a skill built by parallel(skill1, skill2) *)

InitParallel ==
    /\ combinator = "parallel"
    /\ skills \in [1..2 -> RunnableSkills]
    /\ execute_input = ExecuteInput
    /\ calls = << >>
    /\ returns = << >>
    /\ settled = Pending
    /\ xpc = "call"
    /\ IdleAssign
    /\ IdleContract
    /\ IdleValidator
    /\ IdleGraph
    /\ IdleLevel
    /\ IdleDiamond
    /\ IdleCompose
    /\ IdleInference
    /\ IdleResolver
    /\ IdleBreaking
    /\ IdleTraversal
    /\ IdleAction
    /\ IdleEdges

\* Promise.all([skill1.execute(input), skill2.execute(input)])
CallBothSkills ==
    /\ xpc = "call"
    /\ calls' = [ i \in 1..2 |-> [ skill |-> skills[i].name, input |-> execute_input ] ]
    /\ xpc' = "awaiting"
    /\ UNCHANGED <<combinator, skills, execute_input, returns, settled, avars, cvars, dvars, gvars, lvars, wvars, kvars, ivars, rvars, bvars, tvars, hvars, evars>>

\* The parts whose promise has settled
Arrived == { returns[j].part : j \in 1..Len(returns) }

\* The promise of part i is fulfilled; Promise.all is fulfilled with the
\* last of them and execute returns the spread of r1 and r2
PartResolves ==
    /\ xpc \in {"awaiting", "settled"}
    /\ \E i \in (1..2) \ Arrived :
          LET out == output_of(skills[i], calls[i].input)
              other == CHOOSE j \in 1..2 : j # i
          IN  /\ returns' = Append(returns,
                              [ part |-> i, state |-> "fulfilled", output |-> out ])
              /\ IF /\ settled = Pending
                    /\ \E j \in 1..Len(returns) :
                          returns[j].part = other /\ returns[j].state = "fulfilled"
                 THEN /\ settled' = Fulfilled(
                              spread(output_of(skills[1], calls[1].input),
                                     output_of(skills[2], calls[2].input)))
                      /\ xpc' = "settled"
                 ELSE UNCHANGED <<settled, xpc>>
    /\ UNCHANGED <<combinator, skills, execute_input, calls, avars, cvars, dvars, gvars, lvars, wvars, kvars, ivars, rvars, bvars, tvars, hvars, evars>>

\* The promise of part i is rejected; Promise.all is rejected with the
\* first rejection
PartRejects ==
    /\ xpc \in {"awaiting", "settled"}
    /\ \E i \in (1..2) \ Arrived :
          \E error \in errors_thrown_by(skills[i]) :
              /\ returns' = Append(returns,
                              [ part |-> i, state |-> "rejected", error |-> error ])
              /\ IF settled = Pending
                 THEN settled' = Rejected(error) /\ xpc' = "settled"
                 ELSE UNCHANGED <<settled, xpc>>
    /\ UNCHANGED <<combinator, skills, execute_input, calls, avars, cvars, dvars, gvars, lvars, wvars, kvars, ivars, rvars, bvars, tvars, hvars, evars>>

NextParallel == CallBothSkills \/ PartResolves \/ PartRejects

SpecParallel == InitParallel /\ [][NextParallel]_vars

-----------------------------------------------------------------------------
(* A run of validate.sh *)

InitAction ==
    /\ FAIL_ON_ERROR \in FailOnErrorInputs
    /\ discovered \in UNION { [1..n -> Verdicts] : n \in 0..MaxSkillDirs }
    /\ workspace_verdict \in Verdicts
    /\ shell \in Shells
    /\ SKILL_DIRS = << >>
    /\ AGENTSKILLS_FOUND = 0
    /\ AGENTSKILLS_VALID = 0
    /\ AGENTSKILLS_INVALID = 0
    /\ position = 0
    /\ GITHUB_OUTPUT = NoOutput
    /\ exit_status = NotExited
    /\ hpc = "find"
    /\ IdleAssign
    /\ IdleContract
    /\ IdleValidator
    /\ IdleGraph
    /\ IdleLevel
    /\ IdleDiamond
    /\ IdleCompose
    /\ IdleInference
    /\ IdleResolver
    /\ IdleBreaking
    /\ IdleTraversal
    /\ IdleExecute
    /\ IdleEdges

\* mapfile -t SKILL_DIRS < <(find_skill_dirs)
FindSkillDirs ==
    /\ hpc = "find"
    /\ SKILL_DIRS' = find_skill_dirs(discovered, shell)
    /\ hpc' = "count"
    /\ UNCHANGED <<FAIL_ON_ERROR, discovered, workspace_verdict, shell, AGENTSKILLS_FOUND, AGENTSKILLS_VALID, AGENTSKILLS_INVALID, position, GITHUB_OUTPUT, exit_status, avars, cvars, dvars, gvars, lvars, wvars, kvars, ivars, rvars, bvars, tvars, xvars, evars>>

\* if [ ${#SKILL_DIRS[@]} -eq 0 ]: the outputs are zero, exit 0
NoSkillsFound ==
    /\ hpc = "count"
    /\ Len(SKILL_DIRS) = 0
    /\ GITHUB_OUTPUT' = Outputs(0, 0, 0)
    /\ exit_status' = 0
    /\ hpc' = "exited"
    /\ UNCHANGED <<FAIL_ON_ERROR, discovered, workspace_verdict, shell, SKILL_DIRS, AGENTSKILLS_FOUND, AGENTSKILLS_VALID, AGENTSKILLS_INVALID, position, avars, cvars, dvars, gvars, lvars, wvars, kvars, ivars, rvars, bvars, tvars, xvars, evars>>

\* AGENTSKILLS_FOUND=${#SKILL_DIRS[@]}
CountSkillDirs ==
    /\ hpc = "count"
    /\ Len(SKILL_DIRS) # 0
    /\ AGENTSKILLS_FOUND' = Len(SKILL_DIRS)
    /\ position' = 1
    /\ hpc' = "loop"
    /\ UNCHANGED <<FAIL_ON_ERROR, discovered, workspace_verdict, shell, SKILL_DIRS, AGENTSKILLS_VALID, AGENTSKILLS_INVALID, GITHUB_OUTPUT, exit_status, avars, cvars, dvars, gvars, lvars, wvars, kvars, ivars, rvars, bvars, tvars, xvars, evars>>

\* The verdict on the directory the loop is at
Verdict == verdict_on(SKILL_DIRS[position], discovered, workspace_verdict)

\* if output=$(... skills-ref validate ...); then: Valid
SkillValid ==
    /\ hpc = "loop"
    /\ position <= Len(SKILL_DIRS)
    /\ Verdict = "valid"
    /\ AGENTSKILLS_VALID' = AGENTSKILLS_VALID + 1
    /\ position' = position + 1
    /\ UNCHANGED <<FAIL_ON_ERROR, discovered, workspace_verdict, shell, SKILL_DIRS, AGENTSKILLS_FOUND, AGENTSKILLS_INVALID, GITHUB_OUTPUT, exit_status, hpc, avars, cvars, dvars, gvars, lvars, wvars, kvars, ivars, rvars, bvars, tvars, xvars, evars>>

\* else: Invalid, the error lines are extracted and annotated
SkillInvalid ==
    /\ hpc = "loop"
    /\ position <= Len(SKILL_DIRS)
    /\ Verdict = "listed"
    /\ AGENTSKILLS_INVALID' = AGENTSKILLS_INVALID + 1
    /\ position' = position + 1
    /\ UNCHANGED <<FAIL_ON_ERROR, discovered, workspace_verdict, shell, SKILL_DIRS, AGENTSKILLS_FOUND, AGENTSKILLS_VALID, GITHUB_OUTPUT, exit_status, hpc, avars, cvars, dvars, gvars, lvars, wvars, kvars, ivars, rvars, bvars, tvars, xvars, evars>>

\* else: errors=$(echo "$output" | grep -E '^\s+-' | sed ...) with no line
\* for grep to match: under set -eo pipefail the assignment fails and the
\* script exits with grep's status
ExitOnFailedPipeline ==
    /\ hpc = "loop"
    /\ position <= Len(SKILL_DIRS)
    /\ Verdict = "unlisted"
    /\ exit_status' = 1
    /\ hpc' = "exited"
    /\ UNCHANGED <<FAIL_ON_ERROR, discovered, workspace_verdict, shell, SKILL_DIRS, AGENTSKILLS_FOUND, AGENTSKILLS_VALID, AGENTSKILLS_INVALID, position, GITHUB_OUTPUT, avars, cvars, dvars, gvars, lvars, wvars, kvars, ivars, rvars, bvars, tvars, xvars, evars>>

\* Summary, outputs, exit 1 if requested and there are invalid skills
SummaryAndExit ==
    /\ hpc = "loop"
    /\ position > Len(SKILL_DIRS)
    /\ GITHUB_OUTPUT' = Outputs(AGENTSKILLS_FOUND, AGENTSKILLS_VALID, AGENTSKILLS_INVALID)
    /\ exit_status' = IF FAIL_ON_ERROR = "true" /\ AGENTSKILLS_INVALID > 0 THEN 1 ELSE 0
    /\ hpc' = "exited"
    /\ UNCHANGED <<FAIL_ON_ERROR, discovered, workspace_verdict, shell, SKILL_DIRS, AGENTSKILLS_FOUND, AGENTSKILLS_VALID, AGENTSKILLS_INVALID, position, avars, cvars, dvars, gvars, lvars, wvars, kvars, ivars, rvars, bvars, tvars, xvars, evars>>

NextAction ==
    \/ FindSkillDirs
    \/ NoSkillsFound
    \/ CountSkillDirs
    \/ SkillValid
    \/ SkillInvalid
    \/ ExitOnFailedPipeline
    \/ SummaryAndExit

SpecAction == InitAction /\ [][NextAction]_vars

-----------------------------------------------------------------------------
(* validate_composition_graph with its edges checked one at a time *)

InitEdgeChecks ==
    /\ registry \in EdgeCheckRegistries
    /\ composition_errors = << >>
    /\ unchecked = {}
    /\ gpc = "call"
    /\ IdleAssign
    /\ IdleContract
    /\ IdleValidator
    /\ IdleLevel
    /\ IdleDiamond
    /\ IdleCompose
    /\ IdleInference
    /\ IdleResolver
    /\ IdleBreaking
    /\ IdleTraversal
    /\ IdleExecute
    /\ IdleAction

\* No cycle: the loop over graph.edges() begins
BeginEdgeChecks ==
    /\ gpc = "call"
    /\ LET graph == build_dependency_graph(registry)
       IN  /\ detect_cycles(graph) = {}
           /\ unchecked' = graph.edges
    /\ gpc' = "edges"
    /\ UNCHANGED <<registry, composition_errors, avars, cvars, dvars, lvars, wvars, kvars, ivars, rvars, bvars, tvars, xvars, hvars>>

\* Mutant: a check drops the required list of the consumer's input schema
CheckEdge_consuming_required ==
    /\ gpc = "edges"
    /\ \E edge \in unchecked :
          /\ composition_errors' =
                 composition_errors \o edge_errors(registry, edge[1], edge[2])
          /\ unchecked' = unchecked \ {edge}
          /\ registry' = [ registry EXCEPT ![edge[2]].input_schema.required = {} ]
    /\ UNCHANGED <<gpc, avars, cvars, dvars, lvars, wvars, kvars, ivars, rvars, bvars, tvars, xvars, hvars>>

\* One turn of the loop, on whichever edge comes next
CheckEdge ==
    /\ gpc = "edges"
    /\ \E edge \in unchecked :
          /\ composition_errors' =
                 composition_errors \o edge_errors(registry, edge[1], edge[2])
          /\ unchecked' = unchecked \ {edge}
          /\ registry' = registry
    /\ UNCHANGED <<gpc, avars, cvars, dvars, lvars, wvars, kvars, ivars, rvars, bvars, tvars, xvars, hvars>>

\* return errors
ReturnErrors ==
    /\ gpc = "edges"
    /\ unchecked = {}
    /\ gpc' = "done"
    /\ UNCHANGED <<registry, composition_errors, unchecked, avars, cvars, dvars, lvars, wvars, kvars, ivars, rvars, bvars, tvars, xvars, hvars>>

NextEdgeChecks == ReportCycle \/ BeginEdgeChecks \/ CheckEdge \/ ReturnErrors

SpecEdgeChecks == InitEdgeChecks /\ [][NextEdgeChecks]_vars

-----------------------------------------------------------------------------
(* A composition pass: either algorithm run on a registry *)

InitComposition == InitGraph \/ InitLevel

NextComposition == NextGraph \/ NextLevel

SpecComposition == InitComposition /\ [][NextComposition]_vars

-----------------------------------------------------------------------------
(* Properties of the validation report *)

\* C1: the report's valid flag is true iff the report holds no ERROR
\* diagnostic; warnings, however many, leave it true.
C1_ValidIffNoError ==
    vpc = "done" =>
        ( report.valid <=>
            \A i \in 1..Len(report.issues) : report.issues[i].severity # "ERROR" )

C1_Witness ==
    /\ vpc = "done"
    /\ report.valid
    /\ \E i \in 1..Len(report.issues) : report.issues[i].severity = "WARNING"

-----------------------------------------------------------------------------
(* Properties of is_type_assignable *)

\* A schema nests when an array or an object holds an array or an object
IsNested(s) ==
    \/ s.type = "array" /\ ~IsLeaf(s.items)
    \/ s.type = "object" /\ \E f \in DOMAIN s.properties : ~IsLeaf(s.properties[f])

\* C4: is_type_assignable(S, S) is true for every schema S over the tags
\* string, number, integer, boolean, object, array and any, nested ones too.
C4_Reflexive ==
    (apc = "done" /\ source = target) => assignable

C4_Witness ==
    apc = "done" /\ source = target /\ IsNested(source) /\ assignable

\* Every field of every object of the schema is required
RECURSIVE NoOptionalField(_)
NoOptionalField(s) ==
    IF s.type = "array" THEN NoOptionalField(s.items)
    ELSE IF s.type = "object"
         THEN /\ s.required = DOMAIN s.properties
              /\ \A f \in DOMAIN s.properties : NoOptionalField(s.properties[f])
         ELSE TRUE

\* C5 as stated: for all S1, S2, S3, is_type_assignable(S1, S2) and
\* is_type_assignable(S2, S3) imply is_type_assignable(S1, S3).
C5_Transitive ==
    apc = "done" =>
        \A s2 \in AssignUniverse :
            (is_type_assignable(source, s2) /\ is_type_assignable(s2, target))
                => assignable

\* C5 amended: transitivity holds whenever the intermediate schema S2 declares
\* no optional object field at any depth.
C5_TransitiveNoOptional ==
    apc = "done" =>
        \A s2 \in AssignUniverse :
            (NoOptionalField(s2) /\ is_type_assignable(source, s2)
                                /\ is_type_assignable(s2, target))
                => assignable

C5_Witness ==
    /\ apc = "done" /\ assignable
    /\ source.type = "object" /\ source # target
    /\ \E s2 \in AssignUniverse :
          /\ s2 \notin {source, target} /\ NoOptionalField(s2)
          /\ is_type_assignable(source, s2) /\ is_type_assignable(s2, target)

\* C6: for tags other than any, a call with a primitive on either side is
\* assignable iff the tags are equal or it is integer -> number; number ->
\* integer is not, and a primitive never goes to or from object or array.
C6_PrimitiveRule ==
    ( /\ apc = "done"
      /\ source.type # AnyType /\ target.type # AnyType
      /\ (IsPrimitive(source) \/ IsPrimitive(target)) )
    => ( assignable <=>
           \/ source.type = target.type
           \/ source.type = "integer" /\ target.type = "number" )

C6_Witness ==
    /\ apc = "done"
    /\ source = Prim("number") /\ target = Prim("integer")
    /\ ~assignable

\* C7: is_type_assignable(any, T) and is_type_assignable(T, any) are true
\* for every schema T.
C7_AnyBothWays ==
    (apc = "done" /\ (source.type = AnyType \/ target.type = AnyType)) => assignable

-----------------------------------------------------------------------------
(* Properties of check_contract_compatibility *)

Range(seq) == { seq[i] : i \in 1..Len(seq) }

ErrorsOn(field) == { i \in 1..Len(result.errors) : result.errors[i].field = field }

Missing(field) == field \notin DOMAIN producer_output.properties

Mismatched(field) ==
    /\ field \in DOMAIN producer_output.properties
    /\ ~is_type_assignable(producer_output.properties[field],
                           consumer_input.properties[field])

\* C2: the checker returns exactly one error for every violated required
\* consumer field, MISSING_REQUIRED_FIELD when the producer lacks it and
\* TYPE_MISMATCH when it is present but not assignable, none for the others,
\* and goes on after a failure.
C2_EveryViolationOnce ==
    cpc = "done" =>
        /\ \A f \in consumer_input.required :
              /\ Cardinality(ErrorsOn(f)) = IF Missing(f) \/ Mismatched(f) THEN 1 ELSE 0
              /\ \A i \in ErrorsOn(f) :
                    result.errors[i].error_type =
                        IF Missing(f) THEN "MISSING_REQUIRED_FIELD" ELSE "TYPE_MISMATCH"
        /\ Len(result.errors) =
              Cardinality({ f \in consumer_input.required : Missing(f) \/ Mismatched(f) })

\* producer {user} against consumer requiring {to, subject, body}
C2_Witness ==
    /\ cpc = "done"
    /\ DOMAIN producer_output.properties = {"user"}
    /\ consumer_input.required = {"to", "subject", "body"}
    /\ Len(result.errors) = 3
    /\ \A f \in {"to", "subject", "body"} :
          \E i \in 1..3 : /\ result.errors[i].field = f
                          /\ result.errors[i].error_type = "MISSING_REQUIRED_FIELD"

\* C3: a producer output holding every required consumer field with an
\* assignable type gets no error, whatever other fields it declares.
C3_ExtraFieldsTolerated ==
    ( /\ cpc = "done"
      /\ \A f \in consumer_input.required : ~Missing(f) /\ ~Mismatched(f) )
    => (result.errors = << >> /\ result.compatible)

C3_Witness ==
    /\ cpc = "done"
    /\ consumer_input.required # {}
    /\ DOMAIN producer_output.properties \ DOMAIN consumer_input.properties # {}
    /\ result.errors = << >> /\ result.compatible

\* C8: a consumer field that is not required never gets a
\* MISSING_REQUIRED_FIELD error when the producer omits it.
C8_OptionalNeverMissing ==
    cpc = "done" =>
        \A f \in DOMAIN consumer_input.properties \ consumer_input.required :
            \A i \in ErrorsOn(f) : result.errors[i].error_type # "MISSING_REQUIRED_FIELD"

C8_Witness ==
    /\ cpc = "done"
    /\ \E f \in DOMAIN consumer_input.properties \ consumer_input.required :
          Missing(f) /\ ErrorsOn(f) = {}

-----------------------------------------------------------------------------
(* Properties of cycle reporting *)

SelfComposing(n) == n \in DOMAIN registry /\ n \in registry[n].composes

CircularDependencies ==
    { composition_errors[i].skills_involved :
        i \in {j \in 1..Len(composition_errors) :
                 composition_errors[j].error_type = "CIRCULAR_DEPENDENCY"} }

\* C9: a level-3 record whose composes lists only itself gets no
\* CIRCULAR_DEPENDENCY diagnostic for its self-edge.
C9_L3SelfRecursionNotReported ==
    gpc = "done" =>
        \A n \in DOMAIN registry :
            (registry[n].level = 3 /\ registry[n].composes = {n})
                => <<n>> \notin CircularDependencies

\* C10: a self-edge is exempt when and only when its record is level 3: a
\* level-1 or level-2 record that lists itself is named by a
\* CIRCULAR_DEPENDENCY diagnostic, a level-3 record's self-edge is not.
C10_SelfEdgeExemptIffL3 ==
    gpc = "done" =>
        \A n \in DOMAIN registry :
            SelfComposing(n) =>
                IF registry[n].level = 3
                THEN <<n>> \notin CircularDependencies
                ELSE \E cycle \in CircularDependencies : n \in Range(cycle)

\* The registry's dependency graph and its elementary circuits
Graph == build_dependency_graph(registry)

Circuits == detect_cycles(Graph)

CycleDiagnostics ==
    { i \in 1..Len(composition_errors) :
        composition_errors[i].error_type = "CIRCULAR_DEPENDENCY" }

IsElementaryCircuit(p) ==
    /\ Len(p) >= 1
    /\ Range(p) \subseteq Graph.nodes
    /\ \A i, j \in 1..Len(p) : p[i] = p[j] => i = j
    /\ IsCircuit(Graph, p)

HasCircuit == \E p \in Paths(Graph.nodes) : IsCircuit(Graph, p)

RECURSIVE Joined(_)
Joined(S) ==
    LET more == { n \in Graph.nodes :
                    \E m \in S : <<n, m>> \in Graph.edges \/ <<m, n>> \in Graph.edges }
    IN  IF more \subseteq S THEN S ELSE Joined(S \cup more)

\* Skills of the subgraphs that hold a circuit
Implicated == Joined(UNION { Range(p) : p \in UNION Circuits })

-----------------------------------------------------------------------------
(* Properties of validate_level_rules *)

LevelErrors(code) ==
    { i \in 1..Len(level_errors) : ErrorCodeReference[level_errors[i].code] = code }

\* C16: a level-1 record with a non-empty composes list gets exactly one
\* LEVEL_VIOLATION, however many names the list holds and whether or not
\* the registry knows them.
C16_OneLevelViolation ==
    (lpc = "done" /\ registry[skill].level = 1 /\ registry[skill].composes # {})
        => Cardinality(LevelErrors("LEVEL_VIOLATION")) = 1

\* Two names, one of them unknown to the registry
C16_Witness ==
    /\ lpc = "done"
    /\ registry[skill].level = 1
    /\ Cardinality(registry[skill].composes) = 2
    /\ registry[skill].composes \ DOMAIN registry # {}
    /\ Cardinality(LevelErrors("LEVEL_VIOLATION")) = 1

\* Errors of the level pass that name the composed skill n
LevelErrorsOn(n) ==
    { i \in 1..Len(level_errors) : level_errors[i].composed_name = n }

NotFoundErrorsOn(n) == LevelErrorsOn(n) \cap LevelErrors("SKILL_NOT_FOUND")

\* Errors of the graph pass on the edge e
EdgeErrorsOn(e) ==
    { i \in 1..Len(composition_errors) :
        /\ composition_errors[i].producer_skill = e[1]
        /\ composition_errors[i].consumer_skill = e[2] }

\* The graph pass analysed every edge the graph holds: a cycle is reported,
\* or else each edge's contract errors are in the report
RemainingEdgesAnalysed ==
    IF HasCircuit
    THEN CycleDiagnostics # {}
    ELSE \A e \in Graph.edges :
            /\ Cardinality(EdgeErrorsOn(e)) = Len(edge_errors(registry, e[1], e[2]))
            /\ Range(edge_errors(registry, e[1], e[2])) \subseteq Range(composition_errors)

HasUnknownName == \E n \in DOMAIN registry : registry[n].composes \ DOMAIN registry # {}

LevelDiagnosticsOn(n) ==
    LevelErrorsOn(n) \ LevelErrors("SKILL_NOT_FOUND")

\* C17: the level diagnostic on a composition edge depends only on the two
\* levels: level 2 composing a target that is not level 1 gets
\* INVALID_L2_COMPOSE for that target; level 3 composing a level-1, level-2
\* or level-3 target, itself included, gets no level diagnostic.
C17_LevelRuleByLevels ==
    lpc = "done" =>
        \A n \in registry[skill].composes \cap DOMAIN registry :
            /\ (registry[skill].level = 2 /\ registry[n].level # 1) =>
                  /\ Cardinality(LevelDiagnosticsOn(n)) = 1
                  /\ LevelDiagnosticsOn(n) \subseteq LevelErrors("INVALID_L2_COMPOSE")
            /\ (registry[skill].level = 2 /\ registry[n].level = 1) =>
                  LevelDiagnosticsOn(n) = {}
            /\ registry[skill].level = 3 => LevelDiagnosticsOn(n) = {}

-----------------------------------------------------------------------------
(* Properties of diamond detection *)

DiamondWarningsOn(n) ==
    { i \in 1..Len(diamond_report.issues) : diamond_report.issues[i].skill = n }

-----------------------------------------------------------------------------
(* Properties of operation and effect inference *)

Highest(ops) ==
    IF "WRITE" \in ops THEN "WRITE" ELSE IF "READ" \in ops THEN "READ" ELSE "TRANSFORM"

\* C18: the operation of a composed skill is the highest of its parts under
\* TRANSFORM < READ < WRITE: READ with READ is READ, READ with TRANSFORM is
\* READ, and WRITE as soon as one part is WRITE.
C18_ComposedOperationIsMax ==
    ( /\ kpc = "done"
      /\ Property(skill1, "operation") # Undefined
      /\ Property(skill2, "operation") # Undefined )
    => Property(composed_skill, "operation") =
           Highest({skill1.operation, skill2.operation})

\* C19: removing a skill from composes never raises the inferred operation
\* and adding one never lowers it.
C19_OperationMonotone ==
    /\ last_edit = "remove" =>
          OperationSeverity[inferred.operation] <= OperationSeverity[previous.operation]
    /\ last_edit = "add" =>
          OperationSeverity[inferred.operation] >= OperationSeverity[previous.operation]

\* Removing the one WRITE skill of three drops the operation to READ
C19_Witness ==
    /\ last_edit = "remove"
    /\ previous.operation = "WRITE"
    /\ inferred.operation = "READ"
    /\ { composite[n].operation : n \in DOMAIN composite } = {"READ", "TRANSFORM"}

\* C20: the inferred effect set is the union of the composed skills' effect
\* sets: it holds every effect of every composed skill and no other, at
\* every level, and adding a skill or composing upward removes no effect.
C20_EffectsAreUnion ==
    last_edit # "idle" =>
        /\ \A n \in DOMAIN composite : composite[n].effects \subseteq inferred.effects
        /\ \A f \in inferred.effects : \E n \in DOMAIN composite : f \in composite[n].effects
        /\ last_edit \in {"add", "lift"} => previous.effects \subseteq inferred.effects

\* {Query, Fail}, {} and {Mutate, Fail} give {Query, Fail, Mutate}
C20_Witness ==
    /\ last_edit = "add"
    /\ { composite[n].effects : n \in DOMAIN composite } =
           { {"Query", "Fail"}, {}, {"Mutate", "Fail"} }
    /\ inferred.effects = {"Query", "Fail", "Mutate"}

-----------------------------------------------------------------------------
(* Properties of version constraints *)

\* The constraint X.Y.Z and the version a.b.c as numbers
Declared == constraint_version(constraint)

Available == parse_version(version)

\* (a, b, c) >= (X, Y, Z) in major.minor.patch order
AtLeastDeclared ==
    \/ Available[1] > Declared[1]
    \/ /\ Available[1] = Declared[1]
       /\ \/ Available[2] > Declared[2]
          \/ Available[2] = Declared[2] /\ Available[3] >= Declared[3]

OnlyVersionMismatch ==
    /\ Len(version_errors) = 1
    /\ version_errors[1].error_type = "VERSION_MISMATCH"

CaretChecked == rpc = "done" /\ constraint_operator(constraint) = <<"^">>

\* C21: a caret constraint ^X.Y.Z is satisfied by a.b.c iff a = X and
\* (a, b, c) >= (X, Y, Z); otherwise VERSION_MISMATCH is reported, so ^1.2.0
\* accepts 1.9.0 and rejects 2.0.0 and 1.1.9
C21_CaretSameMajorAtLeast ==
    CaretChecked =>
        /\ version_errors = << >> <=> (Available[1] = Declared[1] /\ AtLeastDeclared)
        /\ version_errors # << >> => OnlyVersionMismatch
        /\ constraint = <<"^", "1", ".", "2", ".", "0">> =>
              /\ version = <<"1", ".", "9", ".", "0">> => version_errors = << >>
              /\ version = <<"2", ".", "0", ".", "0">> => OnlyVersionMismatch
              /\ version = <<"1", ".", "1", ".", "9">> => OnlyVersionMismatch

\* ^1.2.0 checked against 2.0.0, which is newer but of another major
C21_Witness ==
    /\ CaretChecked
    /\ constraint = <<"^", "1", ".", "2", ".", "0">>
    /\ version = <<"2", ".", "0", ".", "0">>
    /\ OnlyVersionMismatch

TildeChecked == rpc = "done" /\ constraint_operator(constraint) = <<"~">>

\* The declared constraint with another operator in front of its version
WithOperator(op) == op \o SubSeq(constraint, Len(constraint) - 4, Len(constraint))

\* C22: a tilde constraint ~X.Y.Z is satisfied by a.b.c iff a = X, b = Y and
\* c >= Z; what satisfies it also satisfies ^X.Y.Z and >=X.Y.Z, and a violated
\* constraint yields VERSION_MISMATCH
C22_TildeSameMinorAtLeast ==
    TildeChecked =>
        /\ version_errors = << >> <=>
              /\ Available[1] = Declared[1]
              /\ Available[2] = Declared[2]
              /\ Available[3] >= Declared[3]
        /\ version_errors = << >> =>
              /\ check_version(version, WithOperator(<<"^">>)) = << >>
              /\ check_version(version, WithOperator(<<">", "=">>)) = << >>
        /\ version_errors # << >> => OnlyVersionMismatch

\* ~1.2.0 checked against 1.9.0, which the caret would admit
C22_Witness ==
    /\ TildeChecked
    /\ constraint = <<"~", "1", ".", "2", ".", "0">>
    /\ version = <<"1", ".", "9", ".", "0">>
    /\ OnlyVersionMismatch
    /\ check_version(version, WithOperator(<<"^">>)) = << >>

-----------------------------------------------------------------------------
(* Properties of detect_breaking_changes *)

ChangesOn(field) ==
    { i \in 1..Len(changes) : changes[i].type = "BREAKING" /\ changes[i].field = field }

OutputRemoved(f) ==
    /\ f \in DOMAIN old.output_schema.properties
    /\ f \notin DOMAIN new.output_schema.properties

\* The newer type admits strictly fewer values than the older one
OutputNarrowed(f) ==
    /\ f \in DOMAIN old.output_schema.properties
    /\ f \in DOMAIN new.output_schema.properties
    /\ is_type_assignable(new.output_schema.properties[f], old.output_schema.properties[f])
    /\ ~is_type_assignable(old.output_schema.properties[f], new.output_schema.properties[f])

InputNewlyRequired(f) ==
    /\ f \in new.input_schema.required
    /\ f \notin DOMAIN old.input_schema.properties

\* C23: comparing an older and a newer version yields one BREAKING_CHANGE
\* advisory for each removed output field, each narrowed output field and each
\* newly required input field the older version lacked; an input field that
\* was optional and became required yields none
C23_OneAdvisoryPerBreakingChange ==
    bpc = "done" =>
        /\ \A f \in OutputFieldNames :
              Cardinality(ChangesOn(f)) =
                  IF OutputRemoved(f) \/ OutputNarrowed(f) THEN 1 ELSE 0
        /\ \A f \in InputFieldNames :
              Cardinality(ChangesOn(f)) = IF InputNewlyRequired(f) THEN 1 ELSE 0

-----------------------------------------------------------------------------
(* Properties of is_type_assignable on schemas with references *)

SelfReferentialCall ==
    SelfReferential(defs, root.source) \/ SelfReferential(defs, root.target)

\* C24: isAssignable terminates on every input: it returns a result for every
\* acyclic schema, and it rejects a self-referential schema (INVALID_SCHEMA)
\* instead of recursing without end
C24_TerminatesAndRejectsSelfReference ==
    /\ tpc = "done" /\ ~SelfReferentialCall => outcome \in {"True", "False"}
    /\ tpc = "done" /\ SelfReferentialCall => outcome \in {"False", "INVALID_SCHEMA"}

-----------------------------------------------------------------------------
(* Properties of execute *)

\* The part whose execute was called last
LastCalled == skills[Len(calls)]

\* C25: when a part of a skill built by compose throws during execute, the
\* error of the composed skill is a SkillExecutionError whose skillName is the
\* name of the part that failed, not the name of the composition
C25_ErrorNamesFailedSkill ==
    (combinator = "compose" /\ settled.state = "rejected") =>
        /\ settled.error.class = "SkillExecutionError"
        /\ settled.error.skillName = LastCalled.name

\* The error as the part threw it
ThrownError == IF combinator = "compose" THEN settled.error.cause ELSE settled.error

\* C28: in a skill built by compose or pipe the parts execute strictly left
\* to right, each started only after the previous one has completed and on
\* its output; when one fails no later part is started and the failure
\* reaches the caller
C28_LeftToRightFailFast ==
    combinator \in {"compose", "pipe"} =>
        /\ Len(calls) <= Len(returns) + 1
        /\ \A i \in 1..Len(calls) :
              /\ calls[i].skill = skills[i].name
              /\ calls[i].input = IF i = 1 THEN execute_input ELSE returns[i - 1].output
        /\ \A i \in 1..Len(returns) :
              /\ returns[i].skill = skills[i].name
              /\ returns[i].output = output_of(skills[i], calls[i].input)
        /\ settled.state = "rejected" =>
              /\ Len(calls) = Len(returns) + 1
              /\ ThrownError \in errors_thrown_by(LastCalled)
        /\ settled.state = "fulfilled" =>
              /\ Len(returns) = Len(skills)
              /\ settled.value = returns[Len(skills)].output

\* A pipe of three parts whose second part failed: the third was never called
C28_Witness ==
    /\ combinator = "pipe"
    /\ Len(skills) = 3
    /\ settled.state = "rejected"
    /\ Len(calls) = 2
    /\ Len(returns) = 1
    /\ calls[2].input = returns[1].output

PartOutput(i) == output_of(skills[i], execute_input)

-----------------------------------------------------------------------------
(* Properties of validate.sh *)

SomeDiscoveredSkillInvalid ==
    \E i \in 1..Len(discovered) : discovered[i] # "valid"

\* C27: the action exits 1 iff fail-on-error is 'true' and at least one
\* discovered skill failed validation; every other completed run, the one
\* that finds no skill included, exits 0; and agentskills-found =
\* agentskills-valid + agentskills-invalid
C27_ExitOneIffFailOnErrorAndInvalid ==
    hpc = "exited" =>
        /\ exit_status \in {0, 1}
        /\ exit_status = 1 <=> (FAIL_ON_ERROR = "true" /\ SomeDiscoveredSkillInvalid)
        /\ GITHUB_OUTPUT.written =>
              GITHUB_OUTPUT.found = GITHUB_OUTPUT.valid + GITHUB_OUTPUT.invalid

-----------------------------------------------------------------------------
(* Properties of the edge checks of validate_composition_graph *)

\* The diagnostics of one edge, as a check of that edge alone gives them
DiagnosticsOf(edge) == Range(edge_errors(registry, edge[1], edge[2]))

\* C29: the set of diagnostics of a report is the same for every order in
\* which the edges are checked, and the registry and its schemas are the same
\* after the pass: checking one edge never changes the result of another
C29_EdgeChecksOrderIndependent ==
    /\ []((gpc \in {"edges", "done"} /\ Circuits = {}) =>
            Range(composition_errors) =
                UNION { DiagnosticsOf(edge) : edge \in Graph.edges \ unchecked })
    /\ [][registry' = registry]_vars

\* Two edges with diagnostics, reported in the order opposite to that of
\* their producers' names
C29_Witness ==
    /\ gpc = "done"
    /\ Circuits = {}
    /\ Len(composition_errors) = 2
    /\ composition_errors[1].producer_skill = "C"
    /\ composition_errors[2].producer_skill = "A"
    /\ composition_errors[1].consumer_skill = "B"
    /\ composition_errors[2].consumer_skill = "B"

-----------------------------------------------------------------------------
(* The enumerating checker against the boolean gate *)

BothChecked == cpc = "done" /\ spc = "done"

=============================================================================
